---------------------------- MODULE Spec2Model ----------------------------
(***************************************************************************)
(* Model of packages/apollo-server-codegen/src/Translators/                *)
(* TypeScriptTranslator.ts: the TypeScript translator of the codegen IR.   *)
(*                                                                         *)
(* Every translator method is a pure function from an IR node (and the     *)
(* translator's read-only options) to a string.  Strings are TLA+ strings, *)
(* built with \o exactly as the template literals and joins build them.    *)
(* The state machine is a driver that holds one pending call of a public   *)
(* translator method and performs it.                                      *)
(***************************************************************************)
EXTENDS Integers, Sequences, FiniteSets, TLC

VARIABLES
  options,   \* this.options of the translator (read-only configuration)
  call,      \* the pending call: the method and its arguments
  pc,        \* "ready" before the call, "done" after a return, "aborted" after a throw
  output     \* the returned string (NoOutput until the call has returned)

vars == <<options, call, pc, output>>

---------------------------------------------------------------------------
(* Bounds of the model.                                                    *)

\* nesting depth of NonNullType / ListType wrappers around a NamedType
MaxDepth == 2
\* length of the objects, enums and scalars lists handed to generate
MaxDefs == 2

---------------------------------------------------------------------------
(* JavaScript string and array primitives used by the translator.          *)

\* Array.prototype.join
RECURSIVE join(_, _)
join(parts, sep) ==
  IF Len(parts) = 0 THEN ""
  ELSE IF Len(parts) = 1 THEN parts[1]
  ELSE parts[1] \o sep \o join(Tail(parts), sep)

\* Array.prototype.map
map(f(_), xs) == [i \in 1..Len(xs) |-> f(xs[i])]

\* s.split("\n").join(sep): every newline of s replaced by sep
RECURSIVE splitJoin(_, _)
splitJoin(s, sep) ==
  IF Len(s) = 0 THEN ""
  ELSE (IF SubSeq(s, 1, 1) = "\n" THEN sep ELSE SubSeq(s, 1, 1))
       \o splitJoin(SubSeq(s, 2, Len(s)), sep)

---------------------------------------------------------------------------
(* IR nodes (IR.ts is not part of the sources; the nodes follow the data   *)
(* model: each node renders itself through the translator).                *)

\* an absent value (a missing parent reference)
Undefined == [undefined |-> TRUE]

NamedType(name) == [kind |-> "NamedType", name |-> name]
NonNullType(base) == [kind |-> "NonNullType", base |-> base]
ListType(base) == [kind |-> "ListType", base |-> base]

RECURSIVE TypeTranslate(_, _)

Description(description) == [description |-> description]
\* no documentation attached
NoDescription == Description("")

---------------------------------------------------------------------------
(* Type rendering.                                                         *)

getName(t) ==
  CASE t.name = "Int" -> "number"
    [] t.name = "Boolean" -> "boolean"
    [] t.name = "ID" -> "string"
    [] t.name = "String" -> "string"
    [] OTHER -> t.name

translateNamedType(t, nullable) ==
  IF nullable THEN "Nullable<" \o getName(t) \o ">" ELSE getName(t)

\* variant: the base is rendered with the default flag instead of false
translateNonNullType_DefaultFlag(t) == TypeTranslate(t.base, TRUE)

translateNonNullType(t) == TypeTranslate(t.base, FALSE)

\* variant: the element inherits the container's flag
translateListType_InheritedFlag(t, nullable) ==
  IF nullable
  THEN "Nullable<Array<" \o TypeTranslate(t.base, nullable) \o ">>"
  ELSE "Array<" \o TypeTranslate(t.base, nullable) \o ">"

\* t.base.translate(this): the element is rendered with the default flag
translateListType(t, nullable) ==
  IF nullable
  THEN "Nullable<Array<" \o TypeTranslate(t.base, TRUE) \o ">>"
  ELSE "Array<" \o TypeTranslate(t.base, TRUE) \o ">"

\* Type.translate(translator, nullable = true): double dispatch on the node kind
TypeTranslate(t, nullable) ==
  CASE t.kind = "NamedType" -> translateNamedType(t, nullable)
    [] t.kind = "NonNullType" -> translateNonNullType(t)
    [] t.kind = "ListType" -> translateListType(t, nullable)

---------------------------------------------------------------------------
(* Node rendering of the remaining IR nodes: each forwards to the          *)
(* translator method of its kind.                                          *)

translateDescription(t) ==
  "/**\n * " \o splitJoin(t.description, "\n * ") \o "\n */\n"

\* Description.translate: the block comment, or the empty string if absent
DescriptionTranslate(t) ==
  IF t.description = "" THEN "" ELSE translateDescription(t)

translateCompoundTypeMember(type) ==
  type.name \o ": " \o TypeTranslate(type.type, TRUE) \o ", "

translateCompoundType(t) ==
  join(<<"{ ">> \o map(translateCompoundTypeMember, t.types) \o <<"}">>, "")

CompoundTranslate(t) == translateCompoundType(t)

\* variant: the type is rendered as it stands, without the NonNullType wrapper
translateArgumentDefinition_Unwrapped(t) ==
  join(<<DescriptionTranslate(t.description),
         t.name,
         IF t.type.kind = "NonNullType" THEN ": " ELSE "?: ",
         TypeTranslate(t.type, TRUE)>>, "")

translateArgumentDefinition(t) ==
  join(<<DescriptionTranslate(t.description),
         t.name,
         IF t.type.kind = "NonNullType" THEN ": " ELSE "?: ",
         TypeTranslate(NonNullType(t.type), TRUE)>>, "")

ArgumentTranslate(t) == translateArgumentDefinition(t)

\* the text returned for a resolver marked @external and not @provide'd
translateResolverDefinitionNever(t) ==
  t.name \o ": never // non-resolvable: marked @external and not @provide'd by any fields"

argsType(t) ==
  IF Len(t.arguments) # 0
  THEN "{\n" \o join(map(ArgumentTranslate, t.arguments), "\n") \o "\n}"
  ELSE "{}"

parentType(t) ==
  t.parent.name
  \o "Representation<TInternalReps>"
  \o (IF Len(t.requires.types) # 0 THEN " & " \o CompoundTranslate(t.requires) ELSE "")

returnType(t) == TypeTranslate(t.type, TRUE)

\* variant: the description is written before the external flag is tested
translateResolverDefinition_LateReturn(t) ==
  IF t.isNotProvidedAndExternal
  THEN DescriptionTranslate(t.description) \o translateResolverDefinitionNever(t)
  ELSE join(<<DescriptionTranslate(t.description),
              t.name,
              IF t.isRootType THEN ": " ELSE "?: ",
              "(parent: " \o parentType(t) \o ", args: " \o argsType(t)
                \o ", context: TContext, info: any) => PromiseOrValue<"
                \o returnType(t) \o ">">>, "")

translateResolverDefinition(t) ==
  IF t.isNotProvidedAndExternal
  THEN translateResolverDefinitionNever(t)
  ELSE join(<<DescriptionTranslate(t.description),
              t.name,
              IF t.isRootType THEN ": " ELSE "?: ",
              "(parent: " \o parentType(t) \o ", args: " \o argsType(t)
                \o ", context: TContext, info: any) => PromiseOrValue<"
                \o returnType(t) \o ">">>, "")

\* reading t.parent.name of a missing parent throws a TypeError
translateResolverDefinitionThrows(t) ==
  /\ ~t.isNotProvidedAndExternal
  /\ t.parent = Undefined

ResolverTranslate(t) == translateResolverDefinition(t)

\* variant: a NonNullType field is written as a required member
translateFieldDefinition_Required(t) ==
  join(<<DescriptionTranslate(t.description),
         t.name,
         IF t.type.kind = "NonNullType" THEN ": " ELSE "?: ",
         TypeTranslate(t.type, TRUE)>>, "")

translateFieldDefinition(t) ==
  join(<<DescriptionTranslate(t.description),
         t.name,
         "?: ",
         TypeTranslate(t.type, TRUE)>>, "")

FieldTranslate(t) == translateFieldDefinition(t)

fieldLine(field) == FieldTranslate(field) \o "\n"

resolverLine(resolver) == ResolverTranslate(resolver) \o "\n"

translateObjectDefinition(t) ==
  join(<<"type " \o t.name
           \o "Representation<TInternalReps extends Record<string, any>> = Index<TInternalReps, \""
           \o t.name \o "\", any>\n">>
       \o (IF t.isRootType
           THEN <<>>
           ELSE <<DescriptionTranslate(t.description),
                  "export interface " \o t.name \o " {\n">>
                \o map(fieldLine, t.fields)
                \o <<"\n}\n">>)
       \o <<DescriptionTranslate(t.description),
            "export interface " \o t.name
              \o "Resolver<TContext = {}, TInternalReps = {}> {\n">>
       \o map(resolverLine, t.resolvers)
       \o <<"\n}\n">>, "")

\* variant: the key sets are intersected instead of alternated
translateEntityDefinition_AllKeys(t) ==
  join(<<"type " \o t.name
           \o "Representation<TInternalReps extends Record<string, any>> = Index<TInternalReps, \""
           \o t.name \o "\", {}> & (",
         join(map(CompoundTranslate, t.keys), " & "),
         ")\n\n",
         DescriptionTranslate(t.description),
         "export type " \o t.name \o "<TInternalReps = {}> = " \o t.name
           \o "Representation<TInternalReps> & {\n">>
       \o map(fieldLine, t.fields)
       \o <<"\n}\n",
            DescriptionTranslate(t.description),
            "export interface " \o t.name
              \o "Resolver<TContext = {}, TInternalReps = {}> {\n",
            "  __resolveReference?: (parent: " \o t.name
              \o "Representation<{ /* explicity don't pass TInternalReps */ }>, args: {}, context: TContext, info: any) => PromiseOrValue<Nullable<"
              \o t.name \o ">>\n">>
       \o map(resolverLine, t.resolvers)
       \o <<"\n}\n">>, "")

translateEntityDefinition(t) ==
  join(<<"type " \o t.name
           \o "Representation<TInternalReps extends Record<string, any>> = Index<TInternalReps, \""
           \o t.name \o "\", {}> & (",
         join(map(CompoundTranslate, t.keys), " | "),
         ")\n\n",
         DescriptionTranslate(t.description),
         "export type " \o t.name \o "<TInternalReps = {}> = " \o t.name
           \o "Representation<TInternalReps> & {\n">>
       \o map(fieldLine, t.fields)
       \o <<"\n}\n",
            DescriptionTranslate(t.description),
            "export interface " \o t.name
              \o "Resolver<TContext = {}, TInternalReps = {}> {\n",
            "  __resolveReference?: (parent: " \o t.name
              \o "Representation<{ /* explicity don't pass TInternalReps */ }>, args: {}, context: TContext, info: any) => PromiseOrValue<Nullable<"
              \o t.name \o ">>\n">>
       \o map(resolverLine, t.resolvers)
       \o <<"\n}\n">>, "")

\* a resolver of the object throws while the object is rendered
translateObjectDefinitionThrows(t) ==
  \E i \in 1..Len(t.resolvers) : translateResolverDefinitionThrows(t.resolvers[i])

\* ObjectDefinition.translate: the entity variant renders as an entity
ObjectTranslate(t) ==
  IF t.isEntity THEN translateEntityDefinition(t) ELSE translateObjectDefinition(t)

quoted(value) == "\"" \o value \o "\""

translateEnumDefinition(t) ==
  LET opts == join(map(quoted, t.values), " | ")
  IN IF options.__experimentalInternalEnumValueSupport
     THEN join(<<"export type " \o t.name \o "External = " \o opts,
                 "export type " \o t.name \o " = any">>, "\n")
     ELSE "export type " \o t.name \o " = " \o opts

EnumTranslate(t) == translateEnumDefinition(t)

translateScalarDefinition(t) == "export type " \o t.name \o " = any"

ScalarTranslate(t) == translateScalarDefinition(t)

---------------------------------------------------------------------------
(* Top-level generation.                                                   *)

generateHeader ==
  "// This is a machine generated file.\n"
  \o "// Use \"apollo service:codegen\" to regenerate.\n"
  \o "type PromiseOrValue<T> = Promise<T> | T\n"
  \o "type Nullable<T> = T | null | undefined\n"
  \o "type Index<Map extends Record<string, any>, Key extends string, IfMissing> = Map[Key] extends object ? Map[Key] : IfMissing\n"

topLevelType(type) ==
  IF type = "Query" \/ type = "Mutation" \/ type = "Subscription"
  THEN "  " \o type \o ": " \o type \o "Resolver<TContext, TInternalReps>"
  ELSE "  " \o type \o "?: " \o type \o "Resolver<TContext, TInternalReps>"

topLevelScalar(scalar) == "  " \o scalar \o ": any"

topLevelEnum(enumName) ==
  "  " \o enumName \o ": { [external: " \o enumName \o "External]: any }"

\* variant: the enum entries are written whatever the option says
generateTopLevelResolvers_AlwaysEnums(types, enums, scalars) ==
  join(<<"export interface Resolvers<TContext = {}, TInternalReps = {}> {">>
       \o map(topLevelType, types)
       \o map(topLevelScalar, scalars)
       \o map(topLevelEnum, enums)
       \o <<"}\n">>, "\n")

generateTopLevelResolvers(types, enums, scalars) ==
  join(<<"export interface Resolvers<TContext = {}, TInternalReps = {}> {">>
       \o map(topLevelType, types)
       \o map(topLevelScalar, scalars)
       \o (IF options.__experimentalInternalEnumValueSupport
           THEN map(topLevelEnum, enums)
           ELSE <<>>)
       \o <<"}\n">>, "\n")

nameOf(d) == d.name

\* variant: enum and scalar declarations are joined by a blank line
generate_BlankLines(objects, enums, scalars) ==
  LET header == generateHeader
      resolvers == generateTopLevelResolvers(map(nameOf, objects),
                                             map(nameOf, enums),
                                             map(nameOf, scalars))
      translatedObjectDefinitions == join(map(ObjectTranslate, objects), "\n")
      translatedEnumDefinitions == join(map(EnumTranslate, enums), "\n\n")
      translatedScalarDefinitions == join(map(ScalarTranslate, scalars), "\n\n")
  IN join(<<header,
            resolvers,
            translatedObjectDefinitions,
            translatedEnumDefinitions,
            translatedScalarDefinitions>>, "\n")

generate(objects, enums, scalars) ==
  LET header == generateHeader
      resolvers == generateTopLevelResolvers(map(nameOf, objects),
                                             map(nameOf, enums),
                                             map(nameOf, scalars))
      translatedObjectDefinitions == join(map(ObjectTranslate, objects), "\n")
      translatedEnumDefinitions == join(map(EnumTranslate, enums), "\n")
      translatedScalarDefinitions == join(map(ScalarTranslate, scalars), "\n")
  IN join(<<header,
            resolvers,
            translatedObjectDefinitions,
            translatedEnumDefinitions,
            translatedScalarDefinitions>>, "\n")

\* rendering one of the objects throws, so generate returns nothing
generateThrows(objects) ==
  \E i \in 1..Len(objects) : translateObjectDefinitionThrows(objects[i])

---------------------------------------------------------------------------
(* Inputs: the IR nodes the driver hands to the translator.                *)

TypeNames == {"Int", "Boolean", "ID", "String", "User"}

RECURSIVE Types(_)
Types(d) ==
  IF d = 0 THEN {NamedType(n) : n \in TypeNames}
  ELSE Types(d - 1)
       \cup {NonNullType(b) : b \in Types(d - 1)}
       \cup {ListType(b) : b \in Types(d - 1)}

Descriptions == {NoDescription, Description("A user"), Description("line one\nline two")}

CompoundType(types) == [types |-> types]
Member(name, type) == [name |-> name, type |-> type]

EmptyCompound == CompoundType(<<>>)
KeyId == CompoundType(<<Member("id", NonNullType(NamedType("ID")))>>)
KeySkuRegion ==
  CompoundType(<<Member("sku", NonNullType(NamedType("String"))),
                 Member("region", NamedType("String"))>>)
Compounds == {EmptyCompound, KeyId, KeySkuRegion}

ArgumentDefinition(name, type, description) ==
  [name |-> name, type |-> type, description |-> description]

ArgumentDefinitions ==
  {ArgumentDefinition("first", t, d) :
      t \in Types(MaxDepth), d \in {NoDescription, Description("How many")}}

ArgFirst == ArgumentDefinition("first", NamedType("Int"), NoDescription)
ArgAfter == ArgumentDefinition("after", NonNullType(NamedType("ID")), Description("Cursor"))

FieldDefinition(name, type, description) ==
  [name |-> name, type |-> type, description |-> description]

FieldDefinitions ==
  {FieldDefinition(n, t, d) :
      n \in {"id", "name"}, t \in Types(MaxDepth),
      d \in {NoDescription, Description("A field")}}

ParentRef(name) == [name |-> name]

ResolverDefinition(name, arguments, type, description, parent, requires, isRootType, isNotProvidedAndExternal) ==
  [name |-> name, arguments |-> arguments, type |-> type,
   description |-> description, parent |-> parent, requires |-> requires,
   isRootType |-> isRootType,
   isNotProvidedAndExternal |-> isNotProvidedAndExternal]

ResolverDefinitions ==
  {ResolverDefinition("name", a, t, d, p, r, root, ext) :
      a \in {<<>>, <<ArgFirst>>, <<ArgFirst, ArgAfter>>},
      t \in {NamedType("String"), NonNullType(NamedType("String")),
             ListType(NonNullType(NamedType("Int")))},
      d \in {NoDescription, Description("Resolves it")},
      p \in {Undefined, ParentRef("User"), ParentRef("Query")},
      r \in Compounds,
      root \in BOOLEAN,
      ext \in BOOLEAN}

ObjectDefinition(name, description, fields, resolvers, isRootType, isEntity, keys) ==
  [name |-> name, description |-> description, fields |-> fields,
   resolvers |-> resolvers, isRootType |-> isRootType,
   isEntity |-> isEntity, keys |-> keys]

\* User { id: ID!, name: String }
UserFields ==
  <<FieldDefinition("id", NonNullType(NamedType("ID")), NoDescription),
    FieldDefinition("name", NamedType("String"), NoDescription)>>

\* the resolver lists of an object named `owner`
ResolverLists(owner, root) ==
  LET name == ResolverDefinition("name", <<>>, NamedType("String"), NoDescription,
                                 ParentRef(owner), EmptyCompound, root, FALSE)
      price == ResolverDefinition("price", <<ArgFirst>>, NonNullType(NamedType("Int")),
                                  Description("Needs sku"), ParentRef(owner),
                                  KeySkuRegion, root, FALSE)
      external == ResolverDefinition("legacy", <<>>, NamedType("String"), NoDescription,
                                     ParentRef(owner), EmptyCompound, root, TRUE)
      orphan == ResolverDefinition("name", <<>>, NamedType("String"), NoDescription,
                                   Undefined, EmptyCompound, root, FALSE)
  IN {<<>>, <<name>>, <<name, price, external>>, <<name, orphan>>}

ObjectNames == {"Query", "RootQuery", "User", "Product"}

PlainObjects ==
  UNION {{ObjectDefinition(n, d, f, r, root, FALSE, <<>>) :
            d \in {NoDescription, Description("A user")},
            f \in {<<>>, UserFields},
            r \in ResolverLists(n, root)} :
         n \in ObjectNames, root \in BOOLEAN}

Entities ==
  UNION {{ObjectDefinition(n, d, f, r, root, TRUE, k) :
            d \in {NoDescription, Description("A user")},
            f \in {<<>>, UserFields},
            r \in ResolverLists(n, root),
            k \in {<<>>, <<KeyId>>, <<KeyId, KeySkuRegion>>}} :
         n \in ObjectNames, root \in BOOLEAN}

EnumDefinition(name, values) == [name |-> name, values |-> values]
EnumDefinitions ==
  {EnumDefinition("Color", <<"RED", "BLUE">>), EnumDefinition("Size", <<"S">>)}

ScalarDefinition(name) == [name |-> name]
ScalarDefinitions == {ScalarDefinition("Date"), ScalarDefinition("JSON")}

\* the object definitions handed to generate
GenObjects ==
  LET only(n, root) == CHOOSE r \in ResolverLists(n, root) : Len(r) = 1
      full(n, root) == CHOOSE r \in ResolverLists(n, root) : Len(r) = 3
      orphaned(n, root) ==
        CHOOSE r \in ResolverLists(n, root) :
          Len(r) = 2 /\ r[2].parent = Undefined
  IN {ObjectDefinition("Query", NoDescription, <<>>, only("Query", TRUE), TRUE, FALSE, <<>>),
      ObjectDefinition("RootQuery", NoDescription, <<>>, only("RootQuery", TRUE), TRUE, FALSE, <<>>),
      ObjectDefinition("User", NoDescription, UserFields, only("User", FALSE), FALSE, FALSE, <<>>),
      ObjectDefinition("User", Description("A user"), UserFields, orphaned("User", FALSE), FALSE, FALSE, <<>>),
      ObjectDefinition("Product", Description("A user"), UserFields, full("Product", FALSE), FALSE, TRUE,
                       <<KeyId, KeySkuRegion>>),
      ObjectDefinition("Product", NoDescription, <<>>, <<>>, FALSE, TRUE, <<>>)}

\* the sequences of length at most n of distinct elements of S
RECURSIVE Lists(_, _)
Lists(S, n) ==
  IF n = 0 THEN {<<>>}
  ELSE Lists(S, n - 1)
       \cup {Append(l, x) : l \in {m \in Lists(S, n - 1) : Len(m) = n - 1},
                             x \in S}

Distinct(l) == \A i, j \in 1..Len(l) : i # j => l[i] # l[j]

DefLists(S) == {l \in Lists(S, MaxDefs) : Distinct(l)}

NoOutput == ""

Call(method, t) == [method |-> method, t |-> t, nullable |-> TRUE]

Calls ==
  {[method |-> "translateNamedType", t |-> t, nullable |-> n] :
      t \in Types(0), n \in BOOLEAN}
  \cup {Call("translateNonNullType", t) :
          t \in {x \in Types(MaxDepth) : x.kind = "NonNullType"}}
  \cup {[method |-> "translateListType", t |-> t, nullable |-> n] :
          t \in {x \in Types(MaxDepth) : x.kind = "ListType"}, n \in BOOLEAN}
  \cup {Call("translateCompoundType", t) : t \in Compounds}
  \cup {Call("translateDescription", t) : t \in Descriptions \ {NoDescription}}
  \cup {Call("translateArgumentDefinition", t) : t \in ArgumentDefinitions}
  \cup {Call("translateResolverDefinition", t) : t \in ResolverDefinitions}
  \cup {Call("translateFieldDefinition", t) : t \in FieldDefinitions}
  \cup {Call("translateObjectDefinition", t) : t \in PlainObjects}
  \cup {Call("translateEntityDefinition", t) : t \in Entities}
  \cup {Call("translateEnumDefinition", t) : t \in EnumDefinitions}
  \cup {Call("translateScalarDefinition", t) : t \in ScalarDefinitions}
  \cup {[method |-> "generate", objects |-> o, enums |-> e, scalars |-> s] :
          o \in DefLists(GenObjects), e \in DefLists(EnumDefinitions),
          s \in DefLists(ScalarDefinitions)}

---------------------------------------------------------------------------
(* The driver: one action per public method of the translator.             *)

Init ==
  /\ options \in {[__experimentalInternalEnumValueSupport |-> b] : b \in BOOLEAN}
  /\ call \in Calls
  /\ pc = "ready"
  /\ output = NoOutput

\* the call returns string s
Return(s) ==
  /\ output' = s
  /\ pc' = "done"
  /\ UNCHANGED <<options, call>>

\* the call throws: nothing is returned
Abort ==
  /\ pc' = "aborted"
  /\ UNCHANGED <<options, call, output>>

Pending(method) == pc = "ready" /\ call.method = method

TranslateNamedType ==
  /\ Pending("translateNamedType")
  /\ Return(translateNamedType(call.t, call.nullable))

TranslateNonNullType ==
  /\ Pending("translateNonNullType")
  /\ Return(translateNonNullType(call.t))

TranslateListType ==
  /\ Pending("translateListType")
  /\ Return(translateListType(call.t, call.nullable))

TranslateCompoundType ==
  /\ Pending("translateCompoundType")
  /\ Return(translateCompoundType(call.t))

TranslateDescription ==
  /\ Pending("translateDescription")
  /\ Return(translateDescription(call.t))

TranslateArgumentDefinition ==
  /\ Pending("translateArgumentDefinition")
  /\ Return(translateArgumentDefinition(call.t))

TranslateResolverDefinition ==
  /\ Pending("translateResolverDefinition")
  /\ IF translateResolverDefinitionThrows(call.t)
     THEN Abort
     ELSE Return(translateResolverDefinition(call.t))

TranslateFieldDefinition ==
  /\ Pending("translateFieldDefinition")
  /\ Return(translateFieldDefinition(call.t))

TranslateObjectDefinition ==
  /\ Pending("translateObjectDefinition")
  /\ IF translateObjectDefinitionThrows(call.t)
     THEN Abort
     ELSE Return(translateObjectDefinition(call.t))

TranslateEntityDefinition ==
  /\ Pending("translateEntityDefinition")
  /\ IF translateObjectDefinitionThrows(call.t)
     THEN Abort
     ELSE Return(translateEntityDefinition(call.t))

TranslateEnumDefinition ==
  /\ Pending("translateEnumDefinition")
  /\ Return(translateEnumDefinition(call.t))

TranslateScalarDefinition ==
  /\ Pending("translateScalarDefinition")
  /\ Return(translateScalarDefinition(call.t))

Generate ==
  /\ Pending("generate")
  /\ IF generateThrows(call.objects)
     THEN Abort
     ELSE Return(generate(call.objects, call.enums, call.scalars))

Next ==
  \/ TranslateNamedType
  \/ TranslateNonNullType
  \/ TranslateListType
  \/ TranslateCompoundType
  \/ TranslateDescription
  \/ TranslateArgumentDefinition
  \/ TranslateResolverDefinition
  \/ TranslateFieldDefinition
  \/ TranslateObjectDefinition
  \/ TranslateEntityDefinition
  \/ TranslateEnumDefinition
  \/ TranslateScalarDefinition
  \/ Generate

Spec == Init /\ [][Next]_vars

---------------------------------------------------------------------------
(* Text predicates used to state the properties.                           *)

StartsWith(s, prefix) ==
  Len(prefix) <= Len(s) /\ SubSeq(s, 1, Len(prefix)) = prefix

EndsWith(s, suffix) ==
  Len(suffix) <= Len(s) /\ SubSeq(s, Len(s) - Len(suffix) + 1, Len(s)) = suffix

\* s without its first n characters
Drop(s, n) == SubSeq(s, n + 1, Len(s))

Contains(s, sub) ==
  \E i \in 1..(Len(s) - Len(sub) + 1) : SubSeq(s, i, i + Len(sub) - 1) = sub

Done(method) == pc = "done" /\ call.method = method

RootNames == {"Query", "Mutation", "Subscription"}

\* the aggregate map's entry of object type `name`
RequiredEntry(name) ==
  "\n  " \o name \o ": " \o name \o "Resolver<TContext, TInternalReps>\n"
OptionalEntry(name) ==
  "\n  " \o name \o "?: " \o name \o "Resolver<TContext, TInternalReps>\n"

---------------------------------------------------------------------------
(* C1: every object definition with isRootType = TRUE gets no plain        *)
(* `export interface <Name>` field interface from translateObjectDefinition *)
(* and a required entry in the aggregate Resolvers map of generate; every  *)
(* other object definition gets an optional entry.  (The map tests the     *)
(* name, the object rendering tests the flag: the two must agree.)         *)
C1_RootTypesRequiredInMap ==
  Done("generate") =>
    \A i \in 1..Len(call.objects) :
      LET o == call.objects[i]
      IN IF o.isRootType
         THEN /\ Contains(output, RequiredEntry(o.name))
              /\ ~o.isEntity => ~Contains(output, "export interface " \o o.name \o " {\n")
         ELSE Contains(output, OptionalEntry(o.name))

C1_Failing ==
  /\ Done("generate")
  /\ \E i \in 1..Len(call.objects) :
       call.objects[i].isRootType /\ call.objects[i].name \notin RootNames

---------------------------------------------------------------------------
(* C2: a resolver with isNotProvidedAndExternal = TRUE renders as the      *)
(* uninhabited member `<name>: never` followed by the fixed comment and    *)
(* nothing else, whatever its arguments, requires, description, return     *)
(* type, parent and isRootType flag: no callable signature, no description *)
(* block, no argument or return-type rendering; and the call never throws. *)
C2_ExternalRendersNever ==
  (call.method = "translateResolverDefinition" /\ call.t.isNotProvidedAndExternal) =>
    /\ pc # "aborted"
    /\ pc = "done" =>
         /\ output = call.t.name
                     \o ": never // non-resolvable: marked @external and not @provide'd by any fields"
         /\ ~Contains(output, "(parent: ")
         /\ ~Contains(output, "=>")
         /\ ~Contains(output, "PromiseOrValue<")
         /\ ~Contains(output, "/**")
         /\ ~Contains(output, "args: ")

C2_Witness ==
  /\ Done("translateResolverDefinition")
  /\ call.t.isNotProvidedAndExternal
  /\ call.t.isRootType
  /\ call.t.parent = Undefined
  /\ Len(call.t.arguments) = 2
  /\ Len(call.t.requires.types) = 2
  /\ call.t.description # NoDescription

---------------------------------------------------------------------------
(* C3.  The renderings of the definitions handed to generate, in output    *)
(* order: objects, then enums, then scalars, each in input order.          *)
Declarations ==
  map(ObjectTranslate, call.objects)
  \o map(EnumTranslate, call.enums)
  \o map(ScalarTranslate, call.scalars)

\* s without its trailing newlines
RECURSIVE TrimEnd(_)
TrimEnd(s) ==
  IF EndsWith(s, "\n") THEN TrimEnd(SubSeq(s, 1, Len(s) - 1)) ELSE s

\* the total length of the first k of the declarations D
RECURSIVE LengthOfFirst(_, _)
LengthOfFirst(D, k) ==
  IF k = 0 THEN 0 ELSE LengthOfFirst(D, k - 1) + Len(D[k])

\* the separators a join writes for a section of n renderings, and after it
SeparatorsOf(n) == (IF n = 0 THEN 0 ELSE n - 1) + 1

\* the number of join separators between the Resolvers declaration's
\* separator and declaration k
SeparatorsBefore(k) ==
  LET no == Len(call.objects)
      ne == Len(call.enums)
  IN IF k <= no THEN k - 1
     ELSE IF k <= no + ne THEN SeparatorsOf(no) + (k - no - 1)
     ELSE SeparatorsOf(no) + SeparatorsOf(ne) + (k - no - ne - 1)

\* the length of the header, the Resolvers declaration and their separators
PreambleLength ==
  Len(generateHeader) + 1
  + Len(generateTopLevelResolvers(map(nameOf, call.objects),
                                  map(nameOf, call.enums),
                                  map(nameOf, call.scalars))) + 1

\* the index of the first character of declaration k of D in the output
DeclarationStart(D, preamble, k) ==
  preamble + LengthOfFirst(D, k - 1) + SeparatorsBefore(k) + 1

\* declaration k of D stands in the output at its place
DeclarationInPlace(D, preamble, k) ==
  LET start == DeclarationStart(D, preamble, k)
  IN SubSeq(output, start, start + Len(D[k]) - 1) = D[k]

\* the text between the last line of declaration k and declaration k + 1
Gap(D, preamble, k) ==
  SubSeq(output, DeclarationStart(D, preamble, k) + Len(TrimEnd(D[k])),
         DeclarationStart(D, preamble, k + 1) - 1)

\* declaration k + 1 follows declaration k after one or more blank lines
BlankLineAfter(D, preamble, k) == Contains(Gap(D, preamble, k), "\n\n")

\* the renderings of one section, each followed by `sep` except the last
RECURSIVE Section(_, _)
Section(renderings, sep) ==
  IF renderings = <<>> THEN ""
  ELSE IF Len(renderings) = 1 THEN renderings[1]
  ELSE renderings[1] \o sep \o Section(Tail(renderings), sep)

\* the five sections in their fixed order, `sep` between neighbours
FiveSections(sep) ==
  generateHeader
  \o sep \o generateTopLevelResolvers(map(nameOf, call.objects),
                                      map(nameOf, call.enums),
                                      map(nameOf, call.scalars))
  \o sep \o Section(map(ObjectTranslate, call.objects), sep)
  \o sep \o Section(map(EnumTranslate, call.enums), sep)
  \o sep \o Section(map(ScalarTranslate, call.scalars), sep)

(* C3 (as stated): generate returns the header, the Resolvers declaration, *)
(* the object renderings, the enum renderings and the scalar renderings in *)
(* this order, and each definition's declaration is separated from the     *)
(* next one, within a section and across sections, by a blank line.        *)
C3_BlankLineSeparated ==
  Done("generate") =>
    LET D == Declarations
        preamble == PreambleLength
    IN /\ StartsWith(output, generateHeader)
       /\ \A k \in 1..Len(D) : DeclarationInPlace(D, preamble, k)
       /\ \A k \in 1..(Len(D) - 1) : BlankLineAfter(D, preamble, k)

(* C3 (amended): generate returns the five sections in the fixed order,    *)
(* joined by exactly one newline character, the renderings inside a        *)
(* section joined by exactly one newline character too (an empty section   *)
(* is the empty string and keeps its separator).  Hence a blank line       *)
(* follows a declaration exactly when its rendering ends in a newline:     *)
(* after each object definition, never after an enum or a scalar.          *)
C3_SectionsJoinedByNewline ==
  Done("generate") =>
    LET D == Declarations
        preamble == PreambleLength
    IN /\ output = FiveSections("\n")
       /\ \A k \in 1..Len(D) : DeclarationInPlace(D, preamble, k)
       /\ \A k \in 1..(Len(D) - 1) :
            /\ BlankLineAfter(D, preamble, k) <=> k <= Len(call.objects)
            /\ k > Len(call.objects) => Gap(D, preamble, k) = "\n"

C3_Witness ==
  /\ Done("generate")
  /\ Len(call.objects) = MaxDefs
  /\ Len(call.enums) = 2
  /\ Len(call.scalars) = 2
  /\ BlankLineAfter(Declarations, PreambleLength, 1)
  /\ ~BlankLineAfter(Declarations, PreambleLength, Len(call.objects) + 1)

---------------------------------------------------------------------------
(* C4.  The plain object of the end-to-end example:                        *)
(* User { id: ID!, name: String } with one non-root resolver `name`        *)
(* returning String.                                                       *)
UserExample ==
  ObjectDefinition("User", NoDescription, UserFields,
                   <<ResolverDefinition("name", <<>>, NamedType("String"),
                                        NoDescription, ParentRef("User"),
                                        EmptyCompound, FALSE, FALSE)>>,
                   FALSE, FALSE, <<>>)

HasUserExample ==
  /\ Done("generate")
  /\ \E i \in 1..Len(call.objects) : call.objects[i] = UserExample

UserResolverInterface ==
  "export interface UserResolver<TContext = {}, TInternalReps = {}> {\n"
  \o "name?: (parent: UserRepresentation<TInternalReps>, args: {}, context: TContext, info: any)"
  \o " => PromiseOrValue<Nullable<string>>\n"

\* the output of translateFieldDefinition is description, name, `sep`, and
\* a type text that is Nullable<...> exactly when the field type is nullable
FieldRendersWith(sep) ==
  LET t == call.t
      head == DescriptionTranslate(t.description) \o t.name \o sep
  IN /\ StartsWith(output, head)
     /\ StartsWith(Drop(output, Len(head)), "Nullable<")
          <=> t.type.kind # "NonNullType"

(* C4 (as stated): for the User example the output of generate includes an *)
(* interface User with the members `id: string` (required) and             *)
(* `name?: Nullable<string>`, and an interface UserResolver with the       *)
(* member `name?: (...) => PromiseOrValue<Nullable<string>>`; in general a *)
(* field of NonNullType renders as a required member and a field of        *)
(* nullable type as an optional Nullable member.                           *)
C4_NonNullFieldRequired ==
  /\ HasUserExample =>
       /\ Contains(output, "export interface User {\nid: string\nname?: Nullable<string>\n")
       /\ Contains(output, UserResolverInterface)
  /\ Done("translateFieldDefinition") =>
       FieldRendersWith(IF call.t.type.kind = "NonNullType" THEN ": " ELSE "?: ")

(* C4 (amended): for the User example the output of generate includes an   *)
(* interface User with the members `id?: string` (optional, of non-null    *)
(* type) and `name?: Nullable<string>`, and an interface UserResolver with *)
(* the member `name?: (...) => PromiseOrValue<Nullable<string>>`; in       *)
(* general every field renders as an optional member (`?: `), its type     *)
(* bare when the field type is a NonNullType and Nullable<...> otherwise.  *)
C4_FieldsAlwaysOptional ==
  /\ HasUserExample =>
       /\ Contains(output, "export interface User {\nid?: string\nname?: Nullable<string>\n\n}\n")
       /\ Contains(output, UserResolverInterface)
  /\ Done("translateFieldDefinition") => FieldRendersWith("?: ")

C4_Witness ==
  /\ HasUserExample
  /\ Contains(output, "export interface User {\nid?: string\n")

---------------------------------------------------------------------------
\* an object definition that meets the data model's invariants
WellFormedObject(o) ==
  /\ o.isEntity => Len(o.keys) >= 1
  /\ \A i \in 1..Len(o.resolvers) : o.resolvers[i].parent # Undefined

(* C5: the outcome of generate is binary: it returns the complete output   *)
(* only for well-formed IR, and otherwise aborts and returns nothing.  An  *)
(* entity with no key sets, or a resolver whose parent reference is        *)
(* missing, makes generate abort; no output holds a representation alias   *)
(* with an empty `()` key union.                                           *)
C5_AbortsOnMalformedIR ==
  call.method = "generate" =>
    /\ pc = "aborted" => output = NoOutput
    /\ pc = "done" =>
         /\ \A i \in 1..Len(call.objects) : WellFormedObject(call.objects[i])
         /\ ~Contains(output, "& ()\n")

C5_Failing ==
  /\ Done("generate")
  /\ \E i \in 1..Len(call.objects) :
       call.objects[i].isEntity /\ call.objects[i].keys = <<>>
  /\ Contains(output, "type ProductRepresentation<TInternalReps extends Record<string, any>> = Index<TInternalReps, \"Product\", {}> & ()\n")

---------------------------------------------------------------------------
\* t without its outer NonNullType wrappers
RECURSIVE Unwrapped(_)
Unwrapped(t) == IF t.kind = "NonNullType" THEN Unwrapped(t.base) ELSE t

\* the non-null form of a type text: the bare name or Array<...>
NonNullForm(text, t) ==
  /\ ~StartsWith(text, "Nullable<")
  /\ Unwrapped(t).kind = "ListType" <=> StartsWith(text, "Array<")

(* C6: translateArgumentDefinition writes the separator `: ` exactly when  *)
(* the argument's type is a NonNullType and `?: ` otherwise, and in both   *)
(* cases renders the argument's own type in non-null form (never wrapped   *)
(* in Nullable<...>): no argument is required-but-possibly-null and no     *)
(* nullable-typed argument is required.                                    *)
C6_ArgumentOptionalNeverNullable ==
  Done("translateArgumentDefinition") =>
    LET t == call.t
        head == DescriptionTranslate(t.description) \o t.name
        required == StartsWith(Drop(output, Len(head)), ": ")
        optional == StartsWith(Drop(output, Len(head)), "?: ")
        text == Drop(output, Len(head) + (IF required THEN 2 ELSE 3))
    IN /\ StartsWith(output, head)
       /\ required <=> t.type.kind = "NonNullType"
       /\ optional <=> t.type.kind # "NonNullType"
       /\ NonNullForm(text, t.type)

C6_Witness ==
  /\ Done("translateArgumentDefinition")
  /\ call.t.type = ListType(NamedType("Int"))
  /\ call.t.description = NoDescription
  /\ output = "first?: Array<Nullable<number>>"

---------------------------------------------------------------------------
\* the value literals of an enum, in declaration order, as a union
RECURSIVE LiteralUnion(_)
LiteralUnion(values) ==
  IF values = <<>> THEN ""
  ELSE LiteralUnion(SubSeq(values, 1, Len(values) - 1))
       \o (IF Len(values) > 1 THEN " | " ELSE "")
       \o "\"" \o values[Len(values)] \o "\""

\* the Resolvers declaration at the head of the output of generate
ResolversDeclaration ==
  SubSeq(output, Len(generateHeader) + 2,
         Len(generateHeader) + 1
         + Len(generateTopLevelResolvers(map(nameOf, call.objects),
                                         map(nameOf, call.enums),
                                         map(nameOf, call.scalars))))

(* C7: the __experimentalInternalEnumValueSupport option gates the enum    *)
(* output consistently.  Off: each enum renders as the one alias           *)
(* `<Name> = <union of its value literals in declaration order>`, no       *)
(* `<Name>External` is declared and the Resolvers map has no enum entry.   *)
(* On: each enum renders as `<Name>External = <union>` and `<Name> = any`, *)
(* and the Resolvers map has one entry per enum referring to               *)
(* `<Name>External`, which the same output declares.                       *)
C7_EnumOptionGatesOutput ==
  /\ Done("translateEnumDefinition") =>
       LET e == call.t
       IN IF options.__experimentalInternalEnumValueSupport
          THEN output = "export type " \o e.name \o "External = " \o LiteralUnion(e.values)
                        \o "\nexport type " \o e.name \o " = any"
          ELSE output = "export type " \o e.name \o " = " \o LiteralUnion(e.values)
  /\ Done("generate") =>
       LET entries == ResolversDeclaration
       IN /\ StartsWith(entries, "export interface Resolvers<TContext = {}, TInternalReps = {}> {\n")
          /\ EndsWith(entries, "}\n")
          /\ IF options.__experimentalInternalEnumValueSupport
             THEN \A i \in 1..Len(call.enums) :
                    LET e == call.enums[i]
                    IN /\ Contains(entries, "\n  " \o e.name \o ": { [external: "
                                        \o e.name \o "External]: any }\n")
                       /\ Contains(output, "\nexport type " \o e.name \o "External = "
                                           \o LiteralUnion(e.values) \o "\n")
                       /\ Contains(output, "\nexport type " \o e.name \o " = any")
             ELSE /\ ~Contains(entries, "External]")
                  /\ \A i \in 1..Len(call.enums) :
                       LET e == call.enums[i]
                       IN /\ ~Contains(entries, "\n  " \o e.name \o ": ")
                          /\ ~Contains(output, "export type " \o e.name \o "External")
                          /\ Contains(output, "\nexport type " \o e.name \o " = "
                                              \o LiteralUnion(e.values))

C7_Witness ==
  /\ Done("generate")
  /\ options.__experimentalInternalEnumValueSupport
  /\ Len(call.enums) = 2
  /\ Contains(output, "  Color: { [external: ColorExternal]: any }\n")
  /\ Contains(output, "\nexport type ColorExternal = \"RED\" | \"BLUE\"\nexport type Color = any")

---------------------------------------------------------------------------
\* the host type of a named type: the four built-ins, or the name itself
HostName(name) ==
  IF name = "Int" THEN "number"
  ELSE IF name = "Boolean" THEN "boolean"
  ELSE IF name \in {"ID", "String"} THEN "string"
  ELSE name

(* C8: for every NamedType t, translateNamedType(t, true) is exactly       *)
(* `Nullable<` + translateNamedType(t, false) + `>`; NonNullType is        *)
(* absolute and idempotent: NonNullType(NonNullType(x)) renders            *)
(* identically to NonNullType(x), and NonNullType(x) renders x with        *)
(* nullable = false whatever flag the caller of the NonNullType passes.    *)
C8_NullableWrapsNonNullAbsolute ==
  /\ Done("translateNamedType") =>
       /\ ~call.nullable => output = HostName(call.t.name)
       /\ call.nullable =>
            output = "Nullable<" \o translateNamedType(call.t, FALSE) \o ">"
  /\ Done("translateNonNullType") =>
       /\ output = TypeTranslate(NonNullType(call.t), TRUE)
       /\ output = TypeTranslate(call.t, TRUE)
       /\ output = TypeTranslate(call.t, FALSE)
       /\ ~StartsWith(output, "Nullable<")
       /\ Unwrapped(call.t).kind = "NamedType" =>
            output = HostName(Unwrapped(call.t).name)

C8_Witness ==
  /\ Done("translateNonNullType")
  /\ call.t = NonNullType(NonNullType(NamedType("Int")))
  /\ output = "number"

---------------------------------------------------------------------------
\* text is the rendering of list type t, its container nullable or not
ListRendersAs(text, t, nullableContainer) ==
  LET open == IF nullableContainer THEN "Nullable<Array<" ELSE "Array<"
      close == IF nullableContainer THEN ">>" ELSE ">"
      element == SubSeq(text, Len(open) + 1, Len(text) - Len(close))
  IN /\ StartsWith(text, open)
     /\ EndsWith(text, close)
     /\ StartsWith(element, "Nullable<") <=> t.base.kind # "NonNullType"
     /\ element = TypeTranslate(t.base, TRUE)

(* C9: for every ListType the Nullable<...> wrapper around Array<...> is   *)
(* present exactly when the list itself is not wrapped in NonNullType, and *)
(* the Nullable<...> wrapper around the element exactly when the element   *)
(* type is not wrapped in NonNullType, in all four combinations.           *)
(* List(NonNull(Int)) renders as a nullable array of non-null numbers,     *)
(* NonNull(List(Int)) as a non-null array of nullable numbers.             *)
C9_ListNullabilityIndependent ==
  /\ Done("translateListType") => ListRendersAs(output, call.t, call.nullable)
  /\ (Done("translateNonNullType") /\ call.t.base.kind = "ListType") =>
       ListRendersAs(output, call.t.base, FALSE)
  /\ (Done("translateNonNullType") /\ call.t = NonNullType(ListType(NamedType("Int")))) =>
       /\ output = "Array<Nullable<number>>"
       /\ output # translateListType(ListType(NonNullType(NamedType("Int"))), TRUE)
  /\ (Done("translateListType") /\ call.nullable
      /\ call.t = ListType(NonNullType(NamedType("Int")))) =>
       output = "Nullable<Array<number>>"

C9_Witness ==
  /\ Done("translateListType")
  /\ ~call.nullable
  /\ call.t = ListType(NamedType("Int"))
  /\ output = "Array<Nullable<number>>"

---------------------------------------------------------------------------
\* the compound renderings of the key sets, `|` between neighbours
RECURSIVE Alternation(_)
Alternation(keys) ==
  IF Len(keys) = 1 THEN CompoundTranslate(keys[1])
  ELSE Alternation(SubSeq(keys, 1, Len(keys) - 1))
       \o " | " \o CompoundTranslate(keys[Len(keys)])

(* C10: key sets are combined by OR and requires by AND.  An entity with   *)
(* n >= 1 key sets renders its representation alias as                     *)
(* `Index<TInternalReps, "<Name>", {}>` intersected (`&`) with one         *)
(* parenthesised alternation (`|`) of every key set's compound rendering,  *)
(* once each, in declaration order.  A resolver that is not                *)
(* isNotProvidedAndExternal takes a parent of type                         *)
(* `<Parent>Representation<TInternalReps>`, intersected (`&`) with the     *)
(* requires compound rendering exactly when requires is non-empty.         *)
C10_KeysOrRequiresAnd ==
  /\ (Done("translateEntityDefinition") /\ Len(call.t.keys) >= 1) =>
       StartsWith(output,
                  "type " \o call.t.name
                  \o "Representation<TInternalReps extends Record<string, any>> = "
                  \o "Index<TInternalReps, \"" \o call.t.name \o "\", {}> & ("
                  \o Alternation(call.t.keys) \o ")\n")
  /\ (Done("translateResolverDefinition") /\ ~call.t.isNotProvidedAndExternal) =>
       LET t == call.t
           head == DescriptionTranslate(t.description) \o t.name
                   \o (IF t.isRootType THEN ": " ELSE "?: ")
                   \o "(parent: " \o t.parent.name \o "Representation<TInternalReps>"
           rest == Drop(output, Len(head))
       IN /\ StartsWith(output, head)
          /\ IF t.requires.types = <<>>
             THEN StartsWith(rest, ", args: ")
             ELSE StartsWith(rest, " & " \o CompoundTranslate(t.requires) \o ", args: ")

C10_Witness ==
  /\ Done("translateEntityDefinition")
  /\ call.t.keys = <<KeyId, KeySkuRegion>>
  /\ Contains(output, "\", {}> & ({ id: string, } | { sku: string, region: Nullable<string>, })\n")

=============================================================================
